---- MODULE Spec2Model ----
(***************************************************************************)
(* Model of sobolev/examples/cyclical_learning_rates.ipynb.                *)
(*                                                                         *)
(* The notebook is a sequence of cells run top to bottom in one Python     *)
(* kernel.  The state is the kernel's global namespace, the PNG files      *)
(* written so far, the assembler command lines issued so far and the       *)
(* position of the run (cell and loop iteration).                          *)
(*                                                                         *)
(* Two arithmetics are used.                                               *)
(*  - The notebook run (Spec) computes with float64; it is modelled in     *)
(*    fixed point: a number v is the integer v * Scale, every product and  *)
(*    quotient is rounded toward zero, sqrt is rounded down, and x/0 is    *)
(*    Inf or NaN as in numpy.                                              *)
(*  - The closed-form helpers (SpecFn) are evaluated over exact rationals  *)
(*    <<num, den>>; sqrt is exact on squares of rationals and rounded to   *)
(*    a multiple of 1/SqrtPrec elsewhere.                                  *)
(***************************************************************************)
EXTENDS Integers, Sequences, FiniteSets

(* ------------------------------------------------------------------ *)
(* Integer helpers                                                     *)
(* ------------------------------------------------------------------ *)
Abs(n) == IF n < 0 THEN -n ELSE n

Sign(n) == IF n < 0 THEN -1 ELSE IF n > 0 THEN 1 ELSE 0

\* quotient rounded toward zero, for any signs (d # 0)
TruncDiv(n, d) == Sign(n) * Sign(d) * (Abs(n) \div Abs(d))

RECURSIVE SqrtSearch(_, _, _)
SqrtSearch(n, lo, hi) ==
  IF hi - lo <= 1 THEN lo
  ELSE LET mid == (lo + hi) \div 2
       IN  IF mid * mid <= n THEN SqrtSearch(n, mid, hi)
                             ELSE SqrtSearch(n, lo, mid)

\* floor of the square root of n >= 0
ISqrt(n) == SqrtSearch(n, 0, 46341)

RECURSIVE Gcd(_, _)
Gcd(a, b) == IF b = 0 THEN a ELSE Gcd(b, a % b)

SeqMax(s) == CHOOSE v \in {s[k] : k \in DOMAIN s} :
               \A w \in {s[k] : k \in DOMAIN s} : w <= v

SeqMin(s) == CHOOSE v \in {s[k] : k \in DOMAIN s} :
               \A w \in {s[k] : k \in DOMAIN s} : v <= w

(* ------------------------------------------------------------------ *)
(* float64, in fixed point                                             *)
(* ------------------------------------------------------------------ *)
Scale == 1000

NaN == -(2^30)

Inf == 2^30

IsNum(a) == a # NaN /\ a # Inf

\* the literal n/d
Fx(n, d) == TruncDiv(n * Scale, d)

FMul(a, b) ==
  IF a = NaN \/ b = NaN THEN NaN
  ELSE IF a = Inf \/ b = Inf THEN Inf
  ELSE TruncDiv(a * b, Scale)

FDiv(a, b) ==
  IF a = NaN \/ b = NaN THEN NaN
  ELSE IF b = 0 THEN (IF a = 0 THEN NaN ELSE Inf)
  ELSE IF a = Inf THEN Inf
  ELSE IF b = Inf THEN 0
  ELSE TruncDiv(a * Scale, b)

FSq(a) == FMul(a, a)

\* np.sqrt
FSqrt(a) ==
  IF a = NaN \/ a < 0 THEN NaN
  ELSE IF a = Inf THEN Inf
  ELSE ISqrt(a * Scale)

\* np.linspace(a, b, n)[k], k = 0 .. n-1
Linspace(a, b, n, k) == IF k = n - 1 THEN b ELSE a + TruncDiv(k * (b - a), n - 1)

\* np.concatenate((np.linspace(a, b, n), np.linspace(b, a, n)))[k], k = 0 .. 2n-1
Sweep(a, b, n, k) ==
  IF k < n THEN Linspace(a, b, n, k) ELSE Linspace(b, a, n, k - n)

\* the sweep taken from b down to a and back
SweepDown(a, b, n, k) ==
  IF k < n THEN Linspace(b, a, n, k) ELSE Linspace(b, a, n, (n - 1) - (k - n))

\* np.concatenate([all_R, all_R[::-1]])[k] with all_R = np.linspace(a, b, n)
SweepRev(a, b, n, k) ==
  IF k < n THEN Linspace(a, b, n, k) ELSE Linspace(a, b, n, (n - 1) - (k - n))

(* 2-vectors and matrices *)
VSub(u, v) == [k \in DOMAIN u |-> u[k] - v[k]]

VAdd(u, v) == [k \in DOMAIN u |-> u[k] + v[k]]

VScale(c, u) == [k \in DOMAIN u |-> FMul(c, u[k])]

RECURSIVE Dot(_, _, _)
Dot(r, v, k) == IF k = 0 THEN 0 ELSE Dot(r, v, k - 1) + FMul(r[k], v[k])

\* M @ v
MatVec(M, v) == [r \in DOMAIN M |-> Dot(M[r], v, Len(v))]

Diag(d) == [r \in DOMAIN d |-> [c \in DOMAIN d |-> IF r = c THEN d[r] ELSE 0]]

RECURSIVE Insert(_, _)
Insert(s, v) ==
  IF s = << >> THEN <<v>>
  ELSE IF v <= Head(s) THEN <<v>> \o s
  ELSE <<Head(s)>> \o Insert(Tail(s), v)

RECURSIVE SortAsc(_)
SortAsc(s) == IF s = << >> THEN << >> ELSE Insert(SortAsc(Tail(s)), Head(s))

\* np.linalg.eigvalsh(M), ascending; every matrix of the model is diagonal
eigvalsh(M) == SortAsc([k \in DOMAIN M |-> M[k][k]])

(* ------------------------------------------------------------------ *)
(* File names                                                          *)
(* ------------------------------------------------------------------ *)
(* A name is the sequence of the pieces of its literal: the text before *)
(* the last "_" (if any), the "_", the digits, the extension.           *)
DigitChar == <<"0", "1", "2", "3", "4", "5", "6", "7", "8", "9">>

RECURSIVE Decimal(_)
Decimal(n) ==
  IF n < 10 THEN <<DigitChar[n + 1]>>
  ELSE Decimal(n \div 10) \o <<DigitChar[(n % 10) + 1]>>

\* '%d' % n: no padding
Fmt02dNoPad(n) == Decimal(n)

\* '%02d' % n, n >= 0: decimal digits, zero-padded to width 2
Fmt02d(n) == IF n < 10 THEN <<"0">> \o Decimal(n) ELSE Decimal(n)

\* a name that does not depend on the index
FormatNoIndex(pre, n, post) == pre \o post

\* 'pre%02dpost' % n
Format(pre, n, post) == pre \o Fmt02d(n) \o post

IsDigit(c) == \E k \in 1..10 : DigitChar[k] = c

(* ------------------------------------------------------------------ *)
(* Exact rationals <<num, den>>, den > 0, in lowest terms; <<0, 0>> is *)
(* NaN                                                                 *)
(* ------------------------------------------------------------------ *)
QNaN == <<0, 0>>

Q(n, d) ==
  IF d = 0 THEN QNaN
  ELSE LET k == Gcd(Abs(n), Abs(d))
       IN  <<Sign(d) * (n \div k), Abs(d) \div k>>

QInt(n) == <<n, 1>>

QIsNaN(a) == a[2] = 0

\* sums and products cancel common factors before they multiply
QAdd(a, b) ==
  IF QIsNaN(a) \/ QIsNaN(b) THEN QNaN
  ELSE LET k == Gcd(a[2], b[2])
       IN  Q(a[1] * (b[2] \div k) + b[1] * (a[2] \div k), (a[2] \div k) * b[2])

QNeg(a) == <<-a[1], a[2]>>

QSub(a, b) == QAdd(a, QNeg(b))

QMul(a, b) ==
  IF QIsNaN(a) \/ QIsNaN(b) THEN QNaN
  ELSE LET k1 == Gcd(Abs(a[1]), b[2])
           k2 == Gcd(Abs(b[1]), a[2])
       IN  Q((a[1] \div k1) * (b[1] \div k2), (a[2] \div k2) * (b[2] \div k1))

QDiv(a, b) ==
  IF QIsNaN(a) \/ QIsNaN(b) THEN QNaN
  ELSE IF b[1] = 0 THEN QNaN
  ELSE QMul(a, <<Sign(b[1]) * b[2], Abs(b[1])>>)

QSign(a) == IF QIsNaN(a) THEN QNaN ELSE QInt(Sign(a[1]))

QAbs(a) == <<Abs(a[1]), a[2]>>

\* a > 0; a comparison with NaN is False
QPos(a) == ~QIsNaN(a) /\ a[1] > 0

RECURSIVE QPow(_, _)
QPow(a, k) == IF k = 0 THEN QInt(1) ELSE QMul(a, QPow(a, k - 1))

SqrtPrec == 100

IsSquare(n) == ISqrt(n) * ISqrt(n) = n

\* np.sqrt: exact on the square of a rational, rounded down to 1/SqrtPrec elsewhere
QSqrt(a) ==
  IF QIsNaN(a) \/ a[1] < 0 THEN QNaN
  ELSE IF IsSquare(a[1]) /\ IsSquare(a[2]) THEN <<ISqrt(a[1]), ISqrt(a[2])>>
  ELSE Q(ISqrt((a[1] * SqrtPrec * SqrtPrec) \div a[2]), SqrtPrec)

(* ------------------------------------------------------------------ *)
(* The helper functions.  env is the global namespace at the time of   *)
(* the call: env.t, env.mu, env.L.                                     *)
(* ------------------------------------------------------------------ *)
RECURSIVE ChebStep(_, _, _, _, _)
ChebStep(s, k, n, prev, cur) ==
  IF k = n THEN cur
  ELSE ChebStep(s, k + 1, n, cur, QSub(QMul(QMul(QInt(2), s), cur), prev))

\* special.eval_chebyt(n, s): T_0 = 1, T_1 = s, T_k = 2 s T_{k-1} - T_{k-2}
eval_chebyt(n, s) == IF n = 0 THEN QInt(1) ELSE ChebStep(s, 1, n, QInt(1), s)

\* special.eval_chebyu(n, s): U_0 = 1, U_1 = 2 s, U_k = 2 s U_{k-1} - U_{k-2}
eval_chebyu(n, s) ==
  IF n = 0 THEN QInt(1) ELSE ChebStep(s, 1, n, QInt(1), QMul(QInt(2), s))

\* m ** (t / 2)
HalfPow(m, t) == QPow(QSqrt(m), t)

\* (m**(t/2)) * ((2 * m / (1 + m)) * cheb1_part + ((1-m)/(1 + m)) * cheb2_part)
Residual(env, m, cheb1_part, cheb2_part) ==
  QMul(HalfPow(m, env.t),
       QAdd(QMul(QDiv(QMul(QInt(2), m), QAdd(QInt(1), m)), cheb1_part),
            QMul(QDiv(QSub(QInt(1), m), QAdd(QInt(1), m)), cheb2_part)))

poly_gd(env, x, t) ==
  LET step_size == QDiv(QInt(2), QAdd(env.mu, env.L))
  IN  QPow(QSub(QInt(1), QMul(step_size, x)), t)

poly_polyak(env, x, low, high, degree) ==
  LET m == QPow(QDiv(QSub(QSqrt(high), QSqrt(low)), QAdd(QSqrt(high), QSqrt(low))), 2)
      h == QPow(QDiv(QInt(2), QAdd(QSqrt(high), QSqrt(low))), 2)
      s == QDiv(QSub(QAdd(QInt(1), m), QMul(h, x)), QMul(QInt(2), QSqrt(m)))
  IN  Residual(env, m, eval_chebyt(degree, s), eval_chebyu(degree, s))

\* a link that forgets the factor 2 of the denominator
CyclicalLinkNoHalf(tmp, m) == QDiv(QMul(QSqrt(QAbs(tmp)), QSign(tmp)), QSqrt(m))

\* s = np.sqrt(np.abs(tmp)) * np.sign(tmp)/ (2 * np.sqrt(m))
CyclicalLink(tmp, m) ==
  QDiv(QMul(QSqrt(QAbs(tmp)), QSign(tmp)), QMul(QInt(2), QSqrt(m)))

poly_cyclical(env, x, mu1, L1, mu2, L2, degree) ==
  LET rho == QDiv(QAdd(L2, mu1), QSub(L2, mu1))
      R   == QDiv(QSub(mu2, L1), QSub(L2, mu1))
      m   == QPow(QDiv(QSub(QSqrt(QSub(QPow(rho, 2), QPow(R, 2))),
                            QSqrt(QSub(QPow(rho, 2), QInt(1)))),
                       QSqrt(QSub(QInt(1), QPow(R, 2)))), 2)
      h0  == QDiv(QAdd(QInt(1), m), L1)
      h1  == QDiv(QAdd(QInt(1), m), mu2)
      tmp == QMul(QSub(QAdd(QInt(1), m), QMul(h0, x)),
                  QSub(QAdd(QInt(1), m), QMul(h1, x)))
      s   == CyclicalLink(tmp, m)
  IN  Residual(env, m, eval_chebyt(degree, s), eval_chebyu(degree, s))

\* cell 12
sigma(env, x, m, h) ==
  QDiv(QSub(QAdd(QInt(1), m), QMul(h, x)), QMul(QInt(2), QSqrt(m)))

zeta(env, x, m, h0, h1) ==
  LET f0  == QSub(QAdd(QInt(1), m), QMul(h0, x))
      f1  == QSub(QAdd(QInt(1), m), QMul(h1, x))
      idx == QPos(f0) /\ QPos(f1)
      r   == QSqrt(QDiv(QMul(f0, f1), QMul(QInt(4), m)))
  IN  IF idx THEN r ELSE QSub(QInt(0), r)

sigma_r(env, x, m, r) ==
  LET half == Q(1, 2)
      mid  == QMul(half, QAdd(env.L, env.mu))
      rad  == QMul(QMul(r, half), QSub(env.L, env.mu))
      h1   == QDiv(QAdd(QInt(1), m), QSub(mid, rad))
      h0   == QDiv(QAdd(QInt(1), m), QAdd(mid, rad))
  IN  QAbs(QSub(QDiv(QMul(QSub(QAdd(QInt(1), m), QMul(h0, x)),
                          QSub(QAdd(QInt(1), m), QMul(h1, x))),
                     QMul(QInt(2), m)),
                QInt(1)))

\* rho, computed from the scalar kappa, is repeated len(R) times only where
\* R has more than one entry
BroadcastRhoLong(R) == Len(R) > 2

BroadcastRho(R) == Len(R) > 1

\* kappa is a scalar, R an array; the results are arrays, or scalars (0-d) where
\* nothing broadcasts them
cyclical_rate(env, kappa, R) ==
  LET rho0 == QDiv(QAdd(QInt(1), kappa), QSub(QInt(1), kappa))
      wide == BroadcastRho(R)
      rho  == [k \in DOMAIN R |-> rho0]
      rp   == QSub(rho0, QSqrt(QSub(QPow(rho0, 2), QInt(1))))
      rc   == [k \in DOMAIN R |->
                 QDiv(QSub(QSqrt(QSub(QPow(rho[k], 2), QPow(R[k], 2))),
                           QSqrt(QSub(QPow(rho[k], 2), QInt(1)))),
                      QSqrt(QSub(QInt(1), QPow(R[k], 2))))]
      ra   == [k \in DOMAIN R |->
                 QSub(QInt(1), QDiv(QSub(QInt(1), rp), QSqrt(QSub(QInt(1), QPow(R[k], 2)))))]
  IN  [r_polyak   |-> IF wide THEN [k \in DOMAIN R |-> rp] ELSE <<rp>>,
       scalar     |-> ~wide,
       r_cyclical |-> rc,
       r_approx   |-> ra]

(* ------------------------------------------------------------------ *)
(* State                                                               *)
(* ------------------------------------------------------------------ *)
(* Cells are numbered as in the notebook file, from 0; cells 0, 1, 4,  *)
(* 8, 11, 17, 21, 25, 29 are markdown.                                 *)
SectionOf(c) ==
  IF c \in {2, 3} THEN "setup"
  ELSE IF c \in {5, 6, 7} THEN "heavy_ball"
  ELSE IF c \in {9, 10} THEN "residual"
  ELSE IF c \in {12, 13, 14, 15, 16} THEN "link"
  ELSE IF c \in {18, 19, 20} THEN "spectrum"
  ELSE IF c \in {22, 23, 24} THEN "robust"
  ELSE IF c \in {26, 27, 28} THEN "landscape"
  ELSE IF c \in {30, 31} THEN "rates"
  ELSE "none"

\* the scalar problem constants of the notebook
Scalars == {"mu", "L", "mu1", "mu2", "L1", "L2", "R", "rho", "m"}

\* the other global names that hold problem data
OtherNames ==
  {"n_grid", "max_iter", "x_grid", "x_init", "H", "xt", "xt_old", "grad_t",
   "tmp", "h", "ht", "h0", "h1", "i", "t", "i_R", "it",
   "all_iterates_momentum", "all_iterates_cyclical",
   "mnist_images", "eigs", "all_m", "all_h", "m_polyak", "h_polyak",
   "all_R", "optimal_m", "optimal_h0", "optimal_h1", "h_max", "smallest_R",
   "minimum_rate", "all_kappa", "kappa"}

Names == Scalars \cup OtherNames

\* the globals stored as numbers
NumNames ==
  Scalars \cup {"n_grid", "max_iter", "h", "ht", "h0", "h1", "i", "t", "i_R",
                "it", "m_polyak", "h_polyak", "optimal_m", "optimal_h0",
                "optimal_h1", "h_max", "smallest_R", "minimum_rate", "kappa"}

VARIABLES
  pc,      \* the next step of the run
  iter,    \* position of the iterator of the running for loop
  g,       \* the numeric globals: name -> value (0 before the first assignment)
  H,       \* the global H, a matrix
  xt,      \* the global xt
  xt_old,  \* the global xt_old
  mom,     \* all_iterates_momentum
  cyc,     \* all_iterates_cyclical
  mnist,   \* mnist_images, by the spectrum of mnist_images.T @ mnist_images
  eigs,    \* the global eigs
  helpers, \* helper function name -> number of parameters (0: not defined)
  prov,    \* name -> the cell that last assigned it, whether inside a loop,
           \*         and how often the running cell execution has assigned it
  reads,   \* every read of a global made so far, with the origin of the value
  steps,   \* what every heavy-ball iteration applied
  frames,  \* the numbered PNG frames written, in order
  drawn,   \* the iterates plotted in every frame of the heavy-ball animation
  files,   \* the names of the files on disk
  asm,     \* the assembler command lines issued, in order
  ext,     \* the external steps that fail in this run (an input of the run)
  shell,   \* every shell command run so far, with its outcome
  visible, \* the error output the person running the notebook has seen
  rate,    \* the global rate, a grid of rates (nan where there is none)
  shown,   \* the grids drawn by plt.pcolor so far
  sigma_star, \* the array sigma_star of the landscape cell, at every row
  fn,      \* SpecFn: the arguments and the two global environments of the calls
  out      \* SpecFn: helper name -> the results under the two environments

run_vars ==
  <<pc, iter, g, H, xt, xt_old, mom, cyc, mnist, eigs, helpers, prov, reads,
    steps, frames, drawn, files, asm, ext, shell, visible, rate, shown,
    sigma_star>>

vars == <<run_vars, fn, out>>

(* ------------------------------------------------------------------ *)
(* Bookkeeping of assignments and reads                                *)
(* ------------------------------------------------------------------ *)
\* cell c assigns the names W; first: this is the first step of the cell.
\* cnt counts the assignments of the running cell execution, top those of them
\* that are outside loop bodies
Assigned(p, c, first, inloop, W) ==
  [n \in Names |->
     LET cnt == IF first THEN 0 ELSE p[n].cnt
         top == IF first THEN 0 ELSE p[n].top
     IN  IF n \in W
         THEN [cell |-> c, loop |-> inloop, cnt |-> cnt + 1,
               top |-> IF inloop THEN top ELSE top + 1]
         ELSE [cell |-> p[n].cell, loop |-> p[n].loop, cnt |-> cnt, top |-> top]]

\* cell c reads the names R, whose values come from the assignments p
Read(rd, p, c, R) ==
  rd \cup {[name |-> n, cell |-> c, from |-> p[n].cell, loop |-> p[n].loop] : n \in R}

\* the k-th iteration (from 0) of the loop of cell c saved a figure as name
Wrote(c, k, name) == [cell |-> c, k |-> k, name |-> name]

One == Fx(1, 1)

Two == Fx(2, 1)

(* ------------------------------------------------------------------ *)
(* Cells 2, 3: setup                                                   *)
(* ------------------------------------------------------------------ *)
\* a shell command line "!cmd ..." of cell c that ran; captured: its output went
\* to a %%capture and was not displayed
ShellRun(c, cmd, failed, captured) ==
  [cell |-> c, cmd |-> cmd, failed |-> failed, captured |-> captured]

\* cell c displayed the error e; rest: the command line of the cell that did
\* not run because of it
Seen(c, e, rest) == [cell |-> c, error |-> e, rest |-> rest]

\* the binary apt-get installs
Apngasm == <<"apngasm">>

\* the external steps of the notebook: each works or fails, run by run
ExtSteps == {"wget", "apt-get", "apngasm"}

OpenSans == <<"OpenSans-Light", ".ttf">>

(* "%%capture" is the first line of the cell: the output of the whole cell *)
(* is captured.  fm.createFontList raises when the font file is missing,  *)
(* which ends the cell before apt-get; the error of an uncaught exception *)
(* is displayed, captured or not.                                         *)
Setup ==
  /\ pc = "c2"
  /\ pc' = "c3"
  /\ IF "wget" \in ext
     THEN /\ shell' = Append(shell, ShellRun(2, "wget", TRUE, TRUE))
          /\ visible' = Append(visible, Seen(2, "FileNotFoundError", << >>))
          /\ files' = files
     ELSE /\ shell' = shell \o <<ShellRun(2, "wget", FALSE, TRUE),
                                  ShellRun(2, "apt-get", "apt-get" \in ext, TRUE)>>
          /\ visible' = visible
          /\ files' = files \cup {OpenSans}
                            \cup (IF "apt-get" \in ext THEN {} ELSE {Apngasm})
  /\ UNCHANGED <<iter, g, H, xt, xt_old, mom, cyc, mnist, eigs, helpers, prov,
                 reads, steps, frames, drawn, asm, fn, out, ext, rate, shown, sigma_star>>

Imports ==
  /\ pc = "c3"
  /\ pc' = "c5"
  /\ UNCHANGED <<iter, g, H, xt, xt_old, mom, cyc, mnist, eigs, helpers, prov,
                 reads, steps, frames, drawn, files, asm, fn, out,
                 ext, shell, visible, rate, shown, sigma_star>>

(* ------------------------------------------------------------------ *)
(* Cell 5: iterates of Polyak momentum and of cyclical heavy ball      *)
(* ------------------------------------------------------------------ *)
max_iter == 10

x_init == <<Fx(15, 10), Fx(25, 10)>>

\* h = (2 / (np.sqrt(L) + np.sqrt(mu))) ** 2
PolyakH(L, mu) == FSq(FDiv(Two, FSqrt(L) + FSqrt(mu)))

\* m = ((np.sqrt(L) - np.sqrt(mu)) / (np.sqrt(L) + np.sqrt(mu))) ** 2
PolyakM(L, mu) == FSq(FDiv(FSqrt(L) - FSqrt(mu), FSqrt(L) + FSqrt(mu)))

\* ((np.sqrt(rho**2 - R**2) - np.sqrt(rho**2 - 1)) / np.sqrt(1 - R**2))
CycRoot(rho, R) ==
  FDiv(FSqrt(FSq(rho) - FSq(R)) - FSqrt(FSq(rho) - One), FSqrt(One - FSq(R)))

\* m = (...) ** 2
CycM(rho, R) == FSq(CycRoot(rho, R))

\* the lower gap edge without the division by 2
GapL1Whole(mu, L, R) == mu + FMul(One - R, L - mu)

\* L1 = mu + (1 - R) * (L - mu) / 2
GapL1(mu, L, R) == mu + FDiv(FMul(One - R, L - mu), Two)

\* mu2 = L - (1 - R) * (L - mu) / 2
GapMu2(mu, L, R) == L - FDiv(FMul(One - R, L - mu), Two)

C5Init ==
  /\ pc = "c5"
  /\ LET Hm == <<<<Fx(2, 1), 0>>, <<0, Fx(2, 10)>>>>
         L  == SeqMax(eigvalsh(Hm))
         mu == SeqMin(eigvalsh(Hm))
     IN  /\ H' = Hm
         /\ g' = [g EXCEPT !["n_grid"] = 200, !["max_iter"] = max_iter,
                           !["L"] = L, !["mu"] = mu,
                           !["h"] = PolyakH(L, mu), !["m"] = PolyakM(L, mu)]
  /\ xt' = x_init
  /\ xt_old' = x_init
  /\ mom' = [k \in 1..max_iter |-> <<0, 0>>]
  /\ prov' = Assigned(prov, 5, TRUE, FALSE,
                {"n_grid", "max_iter", "x_grid", "x_init", "H", "L", "mu", "xt",
                 "all_iterates_momentum", "h", "m", "xt_old"})
  /\ reads' = reads
  /\ iter' = 0
  /\ pc' = "c5_polyak"
  /\ UNCHANGED <<cyc, mnist, eigs, helpers, steps, frames, drawn, files, asm,
                 fn, out,
                 ext, shell, visible, rate, shown, sigma_star>>

\* the branch of "if i == 0: ... else: ..."
PolyakBranch(i) == IF i = 0 THEN "first" ELSE "momentum"

\* every iteration a plain gradient step
PolyakStepSizeFirst(b, L, mu, h) == FDiv(Two, L + mu)

\* the step size the branch multiplies grad_t with
PolyakStepSize(b, L, mu, h) == IF b = "first" THEN FDiv(Two, L + mu) ELSE h

\* the coefficient the branch multiplies (xt - xt_old) with (0: no such term)
PolyakMomentum(b, m) == IF b = "first" THEN 0 ELSE m

C5Polyak ==
  /\ pc = "c5_polyak"
  /\ iter < g["max_iter"]
  /\ LET i      == iter
         grad_t == MatVec(H, xt)
         tmp    == xt
         b      == PolyakBranch(i)
         hs     == PolyakStepSize(b, g["L"], g["mu"], g["h"])
         ms     == PolyakMomentum(b, g["m"])
     IN  /\ mom' = [mom EXCEPT ![i + 1] = xt]
         /\ xt' = VAdd(VSub(xt, VScale(hs, grad_t)), VScale(ms, VSub(xt, xt_old)))
         /\ xt_old' = tmp
         /\ g' = [g EXCEPT !["i"] = i]
         /\ steps' = Append(steps, [loop |-> "polyak", i |-> i, branch |-> b,
                                    step |-> hs, momentum |-> ms])
  /\ reads' = Read(reads, prov, 5,
                 {"max_iter", "xt", "H", "xt_old"}
                 \cup (IF iter = 0 THEN {"L", "mu"} ELSE {"h", "m"}))
  /\ prov' = Assigned(prov, 5, FALSE, TRUE,
                {"i", "all_iterates_momentum", "grad_t", "tmp", "xt", "xt_old"})
  /\ iter' = IF iter + 1 < g["max_iter"] THEN iter + 1 ELSE 0
  /\ pc' = IF iter + 1 < g["max_iter"] THEN "c5_polyak" ELSE "c5_cyc_init"
  /\ UNCHANGED <<H, cyc, mnist, eigs, helpers, frames, drawn, files, asm, fn, out,
                 ext, shell, visible, rate, shown, sigma_star>>

C5CycInit ==
  /\ pc = "c5_cyc_init"
  /\ LET mu1 == g["mu"]
         L2  == g["L"]
         rho == FDiv(L2 + mu1, L2 - mu1)
         R   == Fx(9, 10)
     IN  g' = [g EXCEPT !["mu1"] = mu1, !["L2"] = L2, !["rho"] = rho, !["R"] = R,
                        !["L1"] = GapL1(g["mu"], g["L"], R),
                        !["mu2"] = GapMu2(g["mu"], g["L"], R),
                        !["m"] = CycM(rho, R)]
  /\ cyc' = [k \in 1..g["max_iter"] |-> <<0, 0>>]
  /\ xt' = x_init
  /\ xt_old' = x_init
  /\ reads' = Read(reads, prov, 5, {"mu", "L", "max_iter", "x_init"})
  /\ prov' = Assigned(prov, 5, FALSE, FALSE,
                {"mu1", "L2", "rho", "R", "L1", "mu2", "m",
                 "all_iterates_cyclical", "xt", "xt_old"})
  /\ iter' = 0
  /\ pc' = "c5_cyc"
  /\ UNCHANGED <<H, mom, mnist, eigs, helpers, steps, frames, drawn, files, asm,
                 fn, out,
                 ext, shell, visible, rate, shown, sigma_star>>

\* the parity tests exchanged
CycBranchSwapped(i) ==
  IF i = 0 THEN "first"
  ELSE IF i % 2 = 1 THEN "even"
  ELSE IF i % 2 = 0 THEN "odd"
  ELSE "none"

\* the branch of "if i == 0 / elif i % 2 == 0 / elif i % 2 == 1" that runs
CycBranch(i) ==
  IF i = 0 THEN "first"
  ELSE IF i % 2 = 0 THEN "even"
  ELSE IF i % 2 = 1 THEN "odd"
  ELSE "none"

\* iteration 0 taken with the step size of the even iterations
CycStepSizeNoFirst(b, L, mu, m, L1, mu2) ==
  IF b \in {"first", "even"} THEN FDiv(One + m, L1)
  ELSE IF b = "odd" THEN FDiv(One + m, mu2)
  ELSE 0

\* the step size of the branch: 2 / (L + mu), ht = (1 + m) / L1, ht = (1 + m) / mu2
CycStepSize(b, L, mu, m, L1, mu2) ==
  IF b = "first" THEN FDiv(Two, L + mu)
  ELSE IF b = "even" THEN FDiv(One + m, L1)
  ELSE IF b = "odd" THEN FDiv(One + m, mu2)
  ELSE 0

CycMomentum(b, m) == IF b \in {"even", "odd"} THEN m ELSE 0

C5Cyc ==
  /\ pc = "c5_cyc"
  /\ iter < g["max_iter"]
  /\ LET i      == iter
         grad_t == MatVec(H, xt)
         tmp    == xt
         b      == CycBranch(i)
         hs     == CycStepSize(b, g["L"], g["mu"], g["m"], g["L1"], g["mu2"])
         ms     == CycMomentum(b, g["m"])
     IN  /\ cyc' = [cyc EXCEPT ![i + 1] = xt]
         /\ xt' = IF b = "none" THEN xt
                  ELSE VAdd(VSub(xt, VScale(hs, grad_t)), VScale(ms, VSub(xt, xt_old)))
         /\ xt_old' = tmp
         /\ g' = [g EXCEPT !["i"] = i,
                           !["ht"] = IF b \in {"even", "odd"} THEN hs ELSE @]
         /\ steps' = Append(steps, [loop |-> "cyclical", i |-> i, branch |-> b,
                                    step |-> hs, momentum |-> ms])
         /\ reads' = Read(reads, prov, 5,
                        {"max_iter", "xt", "H", "xt_old"}
                        \cup (IF b = "first" THEN {"L", "mu"} ELSE {})
                        \cup (IF b = "even" THEN {"m", "L1"} ELSE {})
                        \cup (IF b = "odd" THEN {"m", "mu2"} ELSE {}))
         /\ prov' = Assigned(prov, 5, FALSE, TRUE,
                       {"i", "all_iterates_cyclical", "grad_t", "tmp", "xt", "xt_old"}
                       \cup (IF b \in {"even", "odd"} THEN {"ht"} ELSE {}))
  /\ iter' = IF iter + 1 < g["max_iter"] THEN iter + 1 ELSE 0
  /\ pc' = IF iter + 1 < g["max_iter"] THEN "c5_cyc" ELSE "c6"
  /\ UNCHANGED <<H, mom, mnist, eigs, helpers, frames, drawn, files, asm, fn, out,
                 ext, shell, visible, rate, shown, sigma_star>>

(* ------------------------------------------------------------------ *)
(* Cell 6: one frame per iteration; cell 7: the assembler              *)
(* ------------------------------------------------------------------ *)
Png == <<".png">>

\* the rows up to and including row k: a[:k + 1]
RowsThrough(a, k) == SubSeq(a, 1, k + 1)

\* the first k rows of an array: a[:k]
Rows(a, k) == SubSeq(a, 1, k)

C6Plot ==
  /\ pc = "c6"
  /\ iter < g["max_iter"]
  /\ LET i      == iter
         f_path == Format(<<"comparison_cyclical", "_">>, i, Png)
     IN  /\ frames' = Append(frames, Wrote(6, i, f_path))
         /\ files' = files \cup {f_path}
         /\ drawn' = Append(drawn, [i |-> i, momentum |-> Rows(mom, i),
                                    cyclical |-> Rows(cyc, i)])
         /\ g' = [g EXCEPT !["i"] = i]
  /\ reads' = Read(reads, prov, 6,
                 {"max_iter", "all_iterates_momentum", "all_iterates_cyclical"})
  /\ prov' = Assigned(prov, 6, iter = 0, TRUE, {"i"})
  /\ iter' = IF iter + 1 < g["max_iter"] THEN iter + 1 ELSE 0
  /\ pc' = IF iter + 1 < g["max_iter"] THEN "c6" ELSE "c7"
  /\ UNCHANGED <<H, xt, xt_old, mom, cyc, mnist, eigs, helpers, steps, asm, fn, out,
                 ext, shell, visible, rate, shown, sigma_star>>

\* "!apngasm <out> <first> ..." issued by cell c
Assemble(c, o, first) == [cell |-> c, out |-> o, first |-> first]

(* A cell "%%capture / !apngasm <out> <first> ...": the cell magic captures *)
(* the output of the cell, the command runs, and it fails when the binary *)
(* is missing or fails.  A failing "!" command raises nothing.            *)
RunAssembler(c, o, first) ==
  LET failed == Apngasm \notin files \/ "apngasm" \in ext
  IN  /\ asm' = Append(asm, Assemble(c, o, first))
      /\ shell' = Append(shell, ShellRun(c, "apngasm", failed, TRUE))
      /\ files' = IF failed THEN files ELSE files \cup {o}
      /\ visible' = visible

(* A cell "# comment / %%capture / !apngasm <out> <first> ...": %%capture *)
(* is a cell magic only on the first line of a cell; on a later line it   *)
(* is run as the line magic "%capture", which does not exist: the cell    *)
(* stops with UsageError and the command line after it does not run.      *)
MagicNotFirst(c, o, first) ==
  /\ visible' = Append(visible, Seen(c, "UsageError", <<Assemble(c, o, first)>>))
  /\ UNCHANGED <<asm, shell, files, sigma_star>>

C7Assemble ==
  /\ pc = "c7"
  /\ MagicNotFirst(7,
       <<"comparison_cyclical", ".png">>,
       <<"comparison_cyclical", "_", "0", "1", ".png">>)
  /\ prov' = Assigned(prov, 7, TRUE, FALSE, {})
  /\ pc' = "c9"
  /\ UNCHANGED <<iter, g, H, xt, xt_old, mom, cyc, mnist, eigs, helpers, reads,
                 steps, frames, drawn, fn, out,
                 ext, rate, shown, sigma_star>>

(* ------------------------------------------------------------------ *)
(* Cells 9, 10: residual polynomial                                    *)
(* ------------------------------------------------------------------ *)
C9Init ==
  /\ pc = "c9"
  /\ g' = [g EXCEPT !["mu"] = Fx(2, 10), !["L"] = Fx(2, 1)]
  /\ helpers' = [helpers EXCEPT !["poly_gd"] = 2, !["poly_polyak"] = 4,
                                !["poly_cyclical"] = 6]
  /\ reads' = reads
  /\ prov' = Assigned(prov, 9, TRUE, FALSE, {"mu", "L", "x_grid"})
  /\ iter' = 0
  /\ pc' = "c9_loop"
  /\ UNCHANGED <<H, xt, xt_old, mom, cyc, mnist, eigs, steps, frames, drawn, files,
                 asm, fn, out,
                 ext, shell, visible, rate, shown, sigma_star>>

\* range(2, 19, 2)[k]
ResDegree(k) == 2 + 2 * k

\* len(range(2, 19, 2))
ResCount == ((19 - 2) + (2 - 1)) \div 2

\* f_path = 'CyclicalResidualPolynomial%02d.png' % (t // 2)
ResFrame(t) == Format(<<"CyclicalResidualPolynomial">>, t \div 2, Png)

C9Loop ==
  /\ pc = "c9_loop"
  /\ iter < ResCount
  /\ helpers["poly_cyclical"] = 6
  /\ LET t == ResDegree(iter)
     IN  /\ g' = [g EXCEPT !["t"] = t]
         /\ frames' = Append(frames, Wrote(9, iter, ResFrame(t)))
         /\ files' = files \cup {ResFrame(t)}
  \* poly_cyclical reads the global t
  /\ prov' = Assigned(prov, 9, FALSE, TRUE, {"t"})
  /\ reads' = Read(reads, prov', 9, {"t", "x_grid", "mu", "L"})
  /\ iter' = IF iter + 1 < ResCount THEN iter + 1 ELSE 0
  /\ pc' = IF iter + 1 < ResCount THEN "c9_loop" ELSE "c10"
  /\ UNCHANGED <<H, xt, xt_old, mom, cyc, mnist, eigs, helpers, steps, drawn, asm,
                 fn, out,
                 ext, shell, visible, rate, shown, sigma_star>>

C10Assemble ==
  /\ pc = "c10"
  /\ MagicNotFirst(10,
       <<"CyclicalResidualPolynomial", ".png">>,
       <<"CyclicalResidualPolynomial", "0", "1", ".png">>)
  /\ prov' = Assigned(prov, 10, TRUE, FALSE, {})
  /\ pc' = "c12"
  /\ UNCHANGED <<iter, g, H, xt, xt_old, mom, cyc, mnist, eigs, helpers, reads,
                 steps, frames, drawn, fn, out,
                 ext, rate, shown, sigma_star>>

(* ------------------------------------------------------------------ *)
(* Cells 12 - 16: link function                                        *)
(* ------------------------------------------------------------------ *)
C12Defs ==
  /\ pc = "c12"
  /\ helpers' = [helpers EXCEPT !["sigma"] = 3, !["zeta"] = 4]
  /\ g' = [g EXCEPT !["n_grid"] = 1000]
  /\ prov' = Assigned(prov, 12, TRUE, FALSE, {"n_grid"})
  /\ pc' = "c13"
  /\ UNCHANGED <<iter, H, xt, xt_old, mom, cyc, mnist, eigs, reads, steps, frames,
                 drawn, files, asm, fn, out,
                 ext, shell, visible, rate, shown, sigma_star>>

C13Init ==
  /\ pc = "c13"
  /\ reads' = Read(reads, prov, 13, {"n_grid"})
  /\ prov' = Assigned(prov, 13, TRUE, FALSE, {"x_grid"})
  /\ iter' = 0
  /\ pc' = "c13_loop"
  /\ UNCHANGED <<g, H, xt, xt_old, mom, cyc, mnist, eigs, helpers, steps, frames,
                 drawn, files, asm, fn, out,
                 ext, shell, visible, rate, shown, sigma_star>>

\* the number of frames of a sweep np.concatenate((linspace(.., n), linspace(.., n)))
SweepCount(n) == 2 * n

C13Loop ==
  /\ pc = "c13_loop"
  /\ iter < SweepCount(20)
  /\ helpers["sigma"] = 3
  /\ LET i      == iter
         L      == Sweep(Fx(1, 1), Fx(2, 1), 20, i)
         f_path == Format(<<"link_function_constant", "_">>, i, Png)
     IN  /\ g' = [g EXCEPT !["i"] = i, !["L"] = L,
                           !["m"] = PolyakM(L, g["mu"]), !["h"] = PolyakH(L, g["mu"])]
         /\ frames' = Append(frames, Wrote(13, i, f_path))
         /\ files' = files \cup {f_path}
  /\ reads' = Read(reads, prov, 13, {"mu", "x_grid"})
  /\ prov' = Assigned(prov, 13, FALSE, TRUE, {"i", "L", "m", "h"})
  /\ iter' = IF iter + 1 < SweepCount(20) THEN iter + 1 ELSE 0
  /\ pc' = IF iter + 1 < SweepCount(20) THEN "c13_loop" ELSE "c14"
  /\ UNCHANGED <<H, xt, xt_old, mom, cyc, mnist, eigs, helpers, steps, drawn, asm,
                 fn, out,
                 ext, shell, visible, rate, shown, sigma_star>>

C14Assemble ==
  /\ pc = "c14"
  /\ MagicNotFirst(14,
       <<"link_function_constant", ".png">>,
       <<"link_function_constant", "_", "0", "1", ".png">>)
  /\ prov' = Assigned(prov, 14, TRUE, FALSE, {})
  /\ pc' = "c15"
  /\ UNCHANGED <<iter, g, H, xt, xt_old, mom, cyc, mnist, eigs, helpers, reads,
                 steps, frames, drawn, fn, out,
                 ext, rate, shown, sigma_star>>

C15Init ==
  /\ pc = "c15"
  /\ g' = [g EXCEPT !["rho"] = FDiv(g["L"] + g["mu"], g["L"] - g["mu"])]
  /\ reads' = Read(reads, prov, 15, {"n_grid", "L", "mu"})
  /\ prov' = Assigned(prov, 15, TRUE, FALSE, {"x_grid", "rho"})
  /\ iter' = 0
  /\ pc' = "c15_loop"
  /\ UNCHANGED <<H, xt, xt_old, mom, cyc, mnist, eigs, helpers, steps, frames,
                 drawn, files, asm, fn, out,
                 ext, shell, visible, rate, shown, sigma_star>>

\* m = (np.sqrt(rho ** 2 - R ** 2) - np.sqrt(rho ** 2 - 1)) ** 2 / (1 - R ** 2)
LinkM(rho, R) ==
  FDiv(FSq(FSqrt(FSq(rho) - FSq(R)) - FSqrt(FSq(rho) - One)), One - FSq(R))

C15Loop ==
  /\ pc = "c15_loop"
  /\ iter < SweepCount(20)
  /\ helpers["zeta"] = 4
  /\ LET i      == iter
         R      == Sweep(0, Fx(5, 10), 20, i)
         m      == LinkM(g["rho"], R)
         L1     == GapL1(g["mu"], g["L"], R)
         mu2    == GapMu2(g["mu"], g["L"], R)
         f_path == Format(<<"link_function_cyclical", "_">>, i, Png)
     IN  /\ g' = [g EXCEPT !["i"] = i, !["R"] = R, !["m"] = m, !["L1"] = L1,
                           !["mu2"] = mu2, !["h0"] = FDiv(One + m, L1),
                           !["h1"] = FDiv(One + m, mu2)]
         /\ frames' = Append(frames, Wrote(15, i, f_path))
         /\ files' = files \cup {f_path}
  /\ reads' = Read(reads, prov, 15, {"rho", "mu", "L", "x_grid"})
  /\ prov' = Assigned(prov, 15, FALSE, TRUE, {"i", "R", "m", "L1", "mu2", "h0", "h1"})
  /\ iter' = IF iter + 1 < SweepCount(20) THEN iter + 1 ELSE 0
  /\ pc' = IF iter + 1 < SweepCount(20) THEN "c15_loop" ELSE "c16"
  /\ UNCHANGED <<H, xt, xt_old, mom, cyc, mnist, eigs, helpers, steps, drawn, asm,
                 fn, out,
                 ext, shell, visible, rate, shown, sigma_star>>

C16Assemble ==
  /\ pc = "c16"
  /\ MagicNotFirst(16,
       <<"link_function_cyclical", ".png">>,
       <<"link_function_cyclical", "_", "0", "1", ".png">>)
  /\ prov' = Assigned(prov, 16, TRUE, FALSE, {})
  /\ pc' = "c18"
  /\ UNCHANGED <<iter, g, H, xt, xt_old, mom, cyc, mnist, eigs, helpers, reads,
                 steps, frames, drawn, fn, out,
                 ext, rate, shown, sigma_star>>

(* ------------------------------------------------------------------ *)
(* Cells 18 - 20: spectral density                                     *)
(* ------------------------------------------------------------------ *)
NumEigs == 3

MaxEig == 3

IsAscending(s) == \A k \in 1..(Len(s) - 1) : s[k] <= s[k + 1]

(* The Gram matrix of the data set is symmetric positive semi-definite: *)
(* up to a rotation it is the diagonal matrix of its eigenvalues, which *)
(* are not all equal.  The data set is an input of the run.             *)
Spectra ==
  {s \in UNION {[1..n -> 0..MaxEig] : n \in 2..NumEigs} :
     IsAscending(s) /\ s[1] < s[Len(s)]}

\* mnist_images.T @ mnist_images
Gram(sp) == Diag([k \in DOMAIN sp |-> Fx(sp[k], 1)])

C18Load ==
  /\ pc = "c18"
  /\ \E sp \in Spectra : mnist' = sp
  /\ prov' = Assigned(prov, 18, TRUE, FALSE, {"mnist_images"})
  /\ pc' = "c19"
  /\ UNCHANGED <<iter, g, H, xt, xt_old, mom, cyc, eigs, helpers, reads, steps,
                 frames, drawn, files, asm, fn, out,
                 ext, shell, visible, rate, shown, sigma_star>>

\* mu2 = L2 - (L1 - mu1)
SpectrumMu2(mu1, L1, L2) == L2 - (L1 - mu1)

C19Spectrum ==
  /\ pc = "c19"
  /\ LET Hm == Gram(mnist)
         e  == eigvalsh(Hm)
         L2 == e[Len(e)]
         mu1 == SeqMin(e)
         L1 == e[Len(e) - 1]
     IN  /\ H' = Hm
         /\ eigs' = e
         /\ g' = [g EXCEPT !["L2"] = L2, !["mu1"] = mu1, !["L1"] = L1,
                           !["mu2"] = SpectrumMu2(mu1, L1, L2)]
  /\ reads' = Read(reads, prov, 19, {"mnist_images"})
  /\ prov' = Assigned(prov, 19, TRUE, FALSE, {"H", "eigs", "L2", "mu1", "L1", "mu2"})
  /\ pc' = "c20"
  /\ UNCHANGED <<iter, xt, xt_old, mom, cyc, mnist, helpers, steps, frames, drawn,
                 files, asm, fn, out,
                 ext, shell, visible, rate, shown, sigma_star>>

C20Plot ==
  /\ pc = "c20"
  /\ files' = files \cup {<<"spectrum_mnist", ".png">>}
  /\ reads' = Read(reads, prov, 20, {"eigs", "L1", "L2", "mu1", "mu2"})
  /\ prov' = Assigned(prov, 20, TRUE, FALSE, {})
  /\ pc' = "c22"
  /\ UNCHANGED <<iter, g, H, xt, xt_old, mom, cyc, mnist, eigs, helpers, steps,
                 frames, drawn, asm, fn, out,
                 ext, shell, visible, rate, shown, sigma_star>>

(* ------------------------------------------------------------------ *)
(* Cells 22 - 24: robust region                                        *)
(* ------------------------------------------------------------------ *)
\* the cell without its assignment of mu and L
C22NoConstants ==
  /\ pc = "c22"
  /\ g' = [g EXCEPT !["n_grid"] = 1500]
  /\ prov' = Assigned(prov, 22, TRUE, FALSE, {"n_grid"})
  /\ pc' = "c23"
  /\ UNCHANGED <<iter, H, xt, xt_old, mom, cyc, mnist, eigs, helpers, reads, steps,
                 frames, drawn, files, asm, fn, out,
                 ext, shell, visible, rate, shown, sigma_star>>

C22Constants ==
  /\ pc = "c22"
  /\ g' = [g EXCEPT !["mu"] = Fx(1, 10), !["L"] = Fx(2, 1), !["n_grid"] = 1500]
  /\ prov' = Assigned(prov, 22, TRUE, FALSE, {"mu", "L", "n_grid"})
  /\ pc' = "c23"
  /\ UNCHANGED <<iter, H, xt, xt_old, mom, cyc, mnist, eigs, helpers, reads, steps,
                 frames, drawn, files, asm, fn, out,
                 ext, shell, visible, rate, shown, sigma_star>>

C23Init ==
  /\ pc = "c23"
  /\ g' = [g EXCEPT !["m_polyak"] = PolyakM(g["L"], g["mu"]),
                    !["h_polyak"] = PolyakH(g["L"], g["mu"]),
                    !["rho"] = FDiv(g["L"] + g["mu"], g["L"] - g["mu"])]
  /\ helpers' = [helpers EXCEPT !["varphi"] = 1, !["sigma_r"] = 3]
  /\ reads' = Read(reads, prov, 23, {"n_grid", "L", "mu"})
  /\ prov' = Assigned(prov, 23, TRUE, FALSE,
                {"all_m", "all_h", "m_polyak", "h_polyak", "rho", "all_R"})
  /\ iter' = 0
  /\ pc' = "c23_loop"
  /\ UNCHANGED <<H, xt, xt_old, mom, cyc, mnist, eigs, steps, frames, drawn, files,
                 asm, fn, out,
                 ext, shell, visible, rate, shown, sigma_star>>

\* L1 = (mu + (1-R) * (L-mu)/2 )
RobustL1(mu, L, R) == mu + FDiv(FMul(One - R, L - mu), Two)

\* mu2 = (L - (1-R) * (L-mu)/2)
RobustMu2(mu, L, R) == L - FDiv(FMul(One - R, L - mu), Two)

MGrid == 2

RGrid == 2

\* a fixed-point number as an exact rational
ToQ(a) == IF IsNum(a) THEN Q(a, Scale) ELSE QNaN

\* a <= b; a comparison with NaN is False
QLe(a, b) == ~QIsNaN(a) /\ ~QIsNaN(b) /\ QSub(b, a)[1] >= 0

\* m_grid, h_grid = np.meshgrid(all_m, all_h): the points <<j, k>>, with
\* all_m = np.linspace(1, 1e-12, n_grid) taken at MGrid points from 1 down (its
\* last point, 1e-12, left out) and all_h = np.linspace(0, 1, n_grid) at
\* RGrid + 1 points
MeshPoints == (0..(MGrid - 1)) \X (0..RGrid)

m_grid(p) == Q(MGrid - p[1], MGrid)

h_grid(p) == Q(p[2], RGrid)

\* smax <= 1 at the grid point p, smax the largest of s1, s2, s3, s4
RobustIdx(env, mu, L1, mu2, L, p) ==
  \A x \in {mu, L1, mu2, L} : QLe(sigma_r(env, x, m_grid(p), h_grid(p)), QInt(1))

\* rate[idx] = np.sqrt(m_grid[idx]); rate[~idx] = np.nan
RobustRate(env, mu, L1, mu2, L) ==
  [p \in MeshPoints |->
     IF RobustIdx(env, mu, L1, mu2, L, p)
     THEN FSqrt(Fx(MGrid - p[1], MGrid))
     ELSE NaN]

\* plt.pcolor(..., rate) in iteration k of the loop of cell c, at relative gap R
Pcolor(c, k, R, r) == [cell |-> c, k |-> k, R |-> R, rate |-> r]

C23Loop ==
  /\ pc = "c23_loop"
  /\ iter < SweepCount(30)
  /\ helpers["sigma_r"] = 3
  /\ LET i_R    == iter
         R      == SweepRev(0, Fx(1, 1), 30, i_R)
         L1     == RobustL1(g["mu"], g["L"], R)
         mu2    == RobustMu2(g["mu"], g["L"], R)
         env    == [mu |-> ToQ(g["mu"]), L |-> ToQ(g["L"])]
         grid   == RobustRate(env, ToQ(g["mu"]), ToQ(L1), ToQ(mu2), ToQ(g["L"]))
         f_path == Format(<<"robust_region_cyclical", "_">>, i_R, Png)
     IN  /\ rate' = grid
         /\ shown' = Append(shown, Pcolor(23, i_R, R, rate'))
         /\ g' = [g EXCEPT !["i_R"] = i_R, !["R"] = R,
                           !["L1"] = L1, !["mu2"] = mu2,
                           !["optimal_m"] = CycM(g["rho"], R)]
         /\ frames' = Append(frames, Wrote(23, i_R, f_path))
         /\ files' = files \cup {f_path}
  \* sigma_r reads the globals L and mu
  /\ reads' = Read(reads, prov, 23, {"all_R", "mu", "L", "rho", "n_grid", "all_m", "all_h"})
  /\ prov' = Assigned(prov, 23, FALSE, TRUE, {"i_R", "R", "L1", "mu2", "optimal_m"})
  /\ iter' = IF iter + 1 < SweepCount(30) THEN iter + 1 ELSE 0
  /\ pc' = IF iter + 1 < SweepCount(30) THEN "c23_loop" ELSE "c24"
  /\ UNCHANGED <<H, xt, xt_old, mom, cyc, mnist, eigs, helpers, steps, drawn, asm,
                 fn, out,
                 ext, shell, visible, sigma_star>>

C24Assemble ==
  /\ pc = "c24"
  /\ RunAssembler(24,
       <<"robust_region_cyclical", ".png">>,
       <<"robust_region_cyclical", "_", "0", "0", ".png">>)
  /\ prov' = Assigned(prov, 24, TRUE, FALSE, {})
  /\ pc' = "c26"
  /\ UNCHANGED <<iter, g, H, xt, xt_old, mom, cyc, mnist, eigs, helpers, reads,
                 steps, frames, drawn, fn, out,
                 ext, rate, shown, sigma_star>>

(* ------------------------------------------------------------------ *)
(* Cells 26 - 28: landscape                                            *)
(* ------------------------------------------------------------------ *)
\* eigs += 1e-2 * np.max(eigs); eigs /= np.max(eigs)
Regularized(e) ==
  LET shifted == [k \in DOMAIN e |-> e[k] + FMul(Fx(1, 100), SeqMax(e))]
  IN  [k \in DOMAIN e |-> FDiv(shifted[k], SeqMax(shifted))]

C26Spectrum ==
  /\ pc = "c26"
  /\ LET Hm == Gram(mnist)
         e  == Regularized(eigvalsh(Hm))
     IN  /\ H' = Hm
         /\ eigs' = e
         /\ g' = [g EXCEPT !["L2"] = SeqMax(e), !["mu1"] = SeqMin(e)]
  /\ reads' = Read(reads, prov, 26, {"mnist_images"})
  /\ prov' = Assigned(prov, 26, TRUE, FALSE, {"H", "eigs", "L2", "mu1"})
  /\ pc' = "c27"
  /\ UNCHANGED <<iter, xt, xt_old, mom, cyc, mnist, helpers, steps, frames, drawn,
                 files, asm, fn, out,
                 ext, shell, visible, rate, shown, sigma_star>>

C27Init ==
  /\ pc = "c27"
  /\ LET smallest_R == Fx(75, 100)
     IN  g' = [g EXCEPT !["n_grid"] = 2000, !["h_max"] = Fx(12, 1),
                        !["smallest_R"] = smallest_R,
                        !["minimum_rate"] = CycRoot(g["rho"], smallest_R)]
  /\ helpers' = [helpers EXCEPT !["sigma"] = 4]
  /\ reads' = Read(reads, prov, 27, {"rho"})
  /\ prov' = Assigned(prov, 27, TRUE, FALSE,
                {"n_grid", "h_max", "smallest_R", "minimum_rate", "all_R"})
  /\ iter' = 0
  /\ pc' = "c27_loop"
  /\ UNCHANGED <<H, xt, xt_old, mom, cyc, mnist, eigs, steps, frames, drawn, files,
                 asm, fn, out,
                 ext, shell, visible, rate, shown, sigma_star>>

\* L1 = (mu1 + L2)/2 - (L2 - mu1) * R / 2
LandL1(mu1, L2, R) == FDiv(mu1 + L2, Two) - FDiv(FMul(L2 - mu1, R), Two)

\* mu2 = (mu1 + L2)/2 + (L2 - mu1) * R / 2
LandMu2(mu1, L2, R) == FDiv(mu1 + L2, Two) + FDiv(FMul(L2 - mu1, R), Two)

\* the number of points of all_h1 (n_grid points in the source)
HGrid == 5

\* all_h1 = np.linspace(1e-6, h_max, n_grid)[k]
all_h1(h_max, k) == Linspace(Fx(1, 1000000), h_max, HGrid, k)

\* rows i and columns j of h0_grid, h1_grid = np.meshgrid(all_h1, all_h1),
\* counted from 1
LandPoints == (1..HGrid) \X (1..HGrid)

\* h0 = np.min((h0_grid[i], h1_grid[i]), axis=0) at column j
LandH0(h_max, i, j) ==
  IF all_h1(h_max, j - 1) <= all_h1(h_max, i - 1)
  THEN all_h1(h_max, j - 1) ELSE all_h1(h_max, i - 1)

\* h1 = np.max((h0_grid[i], h1_grid[i]), axis=0) at column j
LandH1(h_max, i, j) ==
  IF all_h1(h_max, j - 1) <= all_h1(h_max, i - 1)
  THEN all_h1(h_max, i - 1) ELSE all_h1(h_max, j - 1)

\* a product beyond the range of the fixed-point numbers is inf
FMulBig(a, b) ==
  IF a = NaN \/ b = NaN THEN NaN
  ELSE IF a = Inf \/ b = Inf THEN Inf
  ELSE IF b # 0 /\ Abs(a) > (Inf - 1) \div Abs(b) THEN Inf
  ELSE FMul(a, b)

\* np.abs
FAbs(a) == IF IsNum(a) THEN Abs(a) ELSE a

\* a <= b of two floats: False where either is nan
FLe(a, b) == a # NaN /\ b # NaN /\ a <= b

\* np.abs(prod - 1)
AbsLessOne(prod) == IF IsNum(prod) THEN Abs(prod - One) ELSE FAbs(prod)

\* np.abs(sigma(x, m, h0, h1)) with the sigma of cell 27:
\* 2 * ((1 + m - h0 * x) / (2 * np.sqrt(m))) * ((1 + m - h1 * x) / (2 * np.sqrt(m))) - 1
\* (root is np.sqrt(m))
AbsSigma(x, m, root, h0, h1) ==
  LET s0   == FDiv(One + m - FMul(h0, x), FMul(Two, root))
      s1   == FDiv(One + m - FMul(h1, x), FMul(Two, root))
      prod == FMulBig(FMulBig(Two, s0), s1)
  IN  AbsLessOne(prod)

\* (1+optimal_m) * (h0 + h1) / (2 * h0 * h1)
LandXStar(m, h0, h1) == FDiv(FMul(One + m, h0 + h1), FMul(Two, FMul(h0, h1)))

\* np.max over a tuple of floats: nan where any is nan
FMax(vals) ==
  IF \E k \in DOMAIN vals : vals[k] = NaN THEN NaN ELSE SeqMax(vals)

\* tmp4: zero, and np.abs(sigma(xs, ...)) where xs lies in one of the intervals
LandTmp4(mu1, L1, mu2, L2, m, root, h0, h1, xs) ==
  IF (FLe(mu1, xs) /\ FLe(xs, L1)) \/ (FLe(mu2, xs) /\ FLe(xs, L2))
  THEN AbsSigma(xs, m, root, h0, h1)
  ELSE 0

\* sigma_star = np.max((tmp0, tmp1, tmp2, tmp3, tmp4), axis=0)
SigmaStarAt(mu1, L1, mu2, L2, m, root, h0, h1) ==
  LET xs   == LandXStar(m, h0, h1)
      tmp  == <<AbsSigma(mu1, m, root, h0, h1), AbsSigma(L1, m, root, h0, h1),
                AbsSigma(mu2, m, root, h0, h1), AbsSigma(L2, m, root, h0, h1),
                LandTmp4(mu1, L1, mu2, L2, m, root, h0, h1, xs)>>
  IN  FMax(tmp)

\* (1 + optimal_m ** 2) / (2 * optimal_m)
ConvergentBound(m) == FDiv(One + FSq(m), FMul(Two, m))

\* np.sqrt(optimal_m * (sigma_star + np.sqrt(sigma_star**2 - 1))); the inner
\* root is taken as sqrt(s - 1) * sqrt(s + 1), which stays in range
ConvergentRate(m, s) ==
  IF ~IsNum(s) THEN s
  ELSE FSqrt(FMul(m, s + FMul(FSqrt(s - One), FSqrt(s + One))))

\* the row left as np.zeros made it
RowStartZeros(i) == 0

\* rate[i, :] = np.NaN
RowStart(i) == NaN

\* the assignments to rate[i, :] in the order of the source, at one column
RowRate(i, m, root, bound, s) ==
  LET start      == RowStart(i)
      robust     == IF FLe(s, One) THEN root ELSE start
      convergent == IF FLe(s, bound) THEN ConvergentRate(m, s) ELSE robust
  IN  convergent

\* sigma_star of every row i, an array over the columns j (root is np.sqrt(m))
LandSigmaStar(mu1, L1, mu2, L2, m, root, h_max) ==
  \* row i, column j and row j, column i have the same (h0, h1): computed once
  LET upper == [i \in 1..HGrid |-> [j \in 1..HGrid |->
                 LET h0 == LandH0(h_max, i, j)
                     h1 == LandH1(h_max, i, j)
                 IN  IF i <= j THEN SigmaStarAt(mu1, L1, mu2, L2, m, root, h0, h1)
                     ELSE 0]]
  IN  [i \in 1..HGrid |-> [j \in 1..HGrid |->
         IF i <= j THEN upper[i][j] ELSE upper[j][i]]]

\* rate after the loop over the rows i
LandRate(m, root, bound, stars) ==
  [i \in 1..HGrid |-> [j \in 1..HGrid |-> RowRate(i, m, root, bound, stars[i][j])]]

C27Loop ==
  /\ pc = "c27_loop"
  /\ iter < SweepCount(40)
  /\ helpers["sigma"] = 4
  /\ LET it     == iter
         R      == SweepRev(0, g["smallest_R"], 40, it)
         L1     == LandL1(g["mu1"], g["L2"], R)
         mu2    == LandMu2(g["mu1"], g["L2"], R)
         rho    == FDiv(g["L2"] + g["mu1"], g["L2"] - g["mu1"])
         opt_m  == CycM(rho, R)
         root   == FSqrt(opt_m)
         bound  == ConvergentBound(opt_m)
         f_path == Format(<<"rate_convergence_cyclical", "_">>, it, Png)
     IN  /\ g' = [g EXCEPT !["it"] = it, !["R"] = R, !["L1"] = L1, !["mu2"] = mu2,
                           !["rho"] = rho, !["optimal_m"] = opt_m,
                           !["optimal_h0"] = FDiv(One + opt_m, mu2),
                           !["optimal_h1"] = FDiv(One + opt_m, L1)]
         /\ sigma_star' = LandSigmaStar(g["mu1"], L1, mu2, g["L2"], opt_m, root,
                                        g["h_max"])
         /\ rate' = LandRate(opt_m, root, bound, sigma_star')
         /\ frames' = Append(frames, Wrote(27, it, f_path))
         /\ files' = files \cup {f_path}
  /\ reads' = Read(reads, prov, 27,
                 {"all_R", "mu1", "L2", "eigs", "h_max", "n_grid", "minimum_rate"})
  /\ prov' = Assigned(prov, 27, FALSE, TRUE,
                {"it", "R", "L1", "mu2", "rho", "optimal_m", "optimal_h0", "optimal_h1"})
  /\ iter' = IF iter + 1 < SweepCount(40) THEN iter + 1 ELSE 0
  /\ pc' = IF iter + 1 < SweepCount(40) THEN "c27_loop" ELSE "c28"
  /\ UNCHANGED <<H, xt, xt_old, mom, cyc, mnist, eigs, helpers, steps, drawn, asm,
                 fn, out,
                 ext, shell, visible, shown>>

C28Assemble ==
  /\ pc = "c28"
  /\ RunAssembler(28,
       <<"rate_convergence_cyclical", ".png">>,
       <<"rate_convergence_cyclical", "_", "0", "0", ".png">>)
  /\ prov' = Assigned(prov, 28, TRUE, FALSE, {})
  /\ pc' = "c30"
  /\ UNCHANGED <<iter, g, H, xt, xt_old, mom, cyc, mnist, eigs, helpers, reads,
                 steps, frames, drawn, fn, out,
                 ext, rate, shown, sigma_star>>

(* ------------------------------------------------------------------ *)
(* Cells 30, 31: convergence rate comparison                           *)
(* ------------------------------------------------------------------ *)
C30Init ==
  /\ pc = "c30"
  /\ helpers' = [helpers EXCEPT !["cyclical_rate"] = 2]
  /\ prov' = Assigned(prov, 30, TRUE, FALSE, {"all_R", "all_kappa"})
  /\ iter' = 0
  /\ pc' = "c30_loop"
  /\ UNCHANGED <<g, H, xt, xt_old, mom, cyc, mnist, eigs, reads, steps, frames,
                 drawn, files, asm, fn, out,
                 ext, shell, visible, rate, shown, sigma_star>>

RECURSIVE FPow(_, _)
FPow(a, k) == IF k = 0 THEN One ELSE FMul(a, FPow(a, k - 1))

\* np.logspace(0, -4, 20)[k] = 10 ** (-4 k / 19)
Logspace(k) == FPow(Fx(61585, 100000), k)

\* np.concatenate([all_kappa, all_kappa[::-1]])[k], all_kappa = np.logspace(0, -4, 20)[1:]
KappaSweep(k) == IF k < 19 THEN Logspace(k + 1) ELSE Logspace(19 - (k - 19))

C30Loop ==
  /\ pc = "c30_loop"
  /\ iter < SweepCount(19)
  /\ helpers["cyclical_rate"] = 2
  /\ LET i      == iter
         f_path == Format(<<"asymptotic_rate", "_">>, i, Png)
     IN  /\ g' = [g EXCEPT !["i"] = i, !["kappa"] = KappaSweep(i)]
         /\ frames' = Append(frames, Wrote(30, i, f_path))
         /\ files' = files \cup {f_path}
  /\ reads' = Read(reads, prov, 30, {"all_kappa", "all_R"})
  /\ prov' = Assigned(prov, 30, FALSE, TRUE, {"i", "kappa"})
  /\ iter' = IF iter + 1 < SweepCount(19) THEN iter + 1 ELSE 0
  /\ pc' = IF iter + 1 < SweepCount(19) THEN "c30_loop" ELSE "c31"
  /\ UNCHANGED <<H, xt, xt_old, mom, cyc, mnist, eigs, helpers, steps, drawn, asm,
                 fn, out,
                 ext, shell, visible, rate, shown, sigma_star>>

C31Assemble ==
  /\ pc = "c31"
  /\ RunAssembler(31,
       <<"asymptotic_rate", ".png">>,
       <<"asymptotic_rate", "_", "0", "0", ".png">>)
  /\ prov' = Assigned(prov, 31, TRUE, FALSE, {})
  /\ pc' = "done"
  /\ UNCHANGED <<iter, g, H, xt, xt_old, mom, cyc, mnist, eigs, helpers, reads,
                 steps, frames, drawn, fn, out,
                 ext, rate, shown, sigma_star>>

(* ------------------------------------------------------------------ *)
(* The run                                                             *)
(* ------------------------------------------------------------------ *)
HelperNames ==
  {"poly_gd", "poly_polyak", "poly_cyclical", "sigma", "zeta", "varphi",
   "sigma_r", "cyclical_rate"}

InitRun ==
  /\ pc = "c2"
  /\ iter = 0
  /\ g = [n \in NumNames |-> 0]
  /\ H = << >>
  /\ xt = << >>
  /\ xt_old = << >>
  /\ mom = << >>
  /\ cyc = << >>
  /\ mnist = << >>
  /\ eigs = << >>
  /\ helpers = [n \in HelperNames |-> 0]
  /\ prov = [n \in Names |-> [cell |-> 0, loop |-> FALSE, cnt |-> 0, top |-> 0]]
  /\ reads = {}
  /\ steps = << >>
  /\ frames = << >>
  /\ drawn = << >>
  /\ files = {}
  /\ asm = << >>
  /\ shell = << >>
  /\ visible = << >>
  /\ rate = << >>
  /\ shown = << >>
  /\ sigma_star = << >>

NoCall == [x |-> 0]

Init ==
  /\ InitRun
  /\ ext = {}
  /\ fn = NoCall
  /\ out = NoCall

Next ==
  \/ Setup
  \/ Imports
  \/ C5Init
  \/ C5Polyak
  \/ C5CycInit
  \/ C5Cyc
  \/ C6Plot
  \/ C7Assemble
  \/ C9Init
  \/ C9Loop
  \/ C10Assemble
  \/ C12Defs
  \/ C13Init
  \/ C13Loop
  \/ C14Assemble
  \/ C15Init
  \/ C15Loop
  \/ C16Assemble
  \/ C18Load
  \/ C19Spectrum
  \/ C20Plot
  \/ C22Constants
  \/ C23Init
  \/ C23Loop
  \/ C24Assemble
  \/ C26Spectrum
  \/ C27Init
  \/ C27Loop
  \/ C28Assemble
  \/ C30Init
  \/ C30Loop
  \/ C31Assemble

Spec == Init /\ [][Next]_vars

(* The same run where external steps may fail *)
InitShell ==
  /\ InitRun
  /\ ext \in SUBSET ExtSteps
  /\ fn = NoCall
  /\ out = NoCall

SpecShell == InitShell /\ [][Next]_vars

(* ------------------------------------------------------------------ *)
(* The helpers on their own: each is called once, under two global     *)
(* namespaces, with the same arguments                                 *)
(* ------------------------------------------------------------------ *)
MaxRoot == 3

MaxDeg == 3

XSteps == 4

Helpers7 ==
  <<"poly_gd", "poly_polyak", "poly_cyclical", "sigma", "zeta", "sigma_r",
    "cyclical_rate">>

\* the values the notebook gives the globals mu, L and t (cells 9, 13, 22)
Envs ==
  [t : {ResDegree(0), ResDegree(1)}, mu : {Q(1, 5), Q(1, 10)}, L : {QInt(1), QInt(2)}]

\* the namespace of the plotting loop of cell 9 at degree d
PlotEnv(d) == [t |-> d, mu |-> Q(1, 5), L |-> QInt(2)]

(* The arguments: the bounds low < high are squares of integers, so that *)
(* every square root of the Polyak and R = 0 formulas is exact; x runs   *)
(* over a grid of [0, low + high], as x_grid does.                       *)
Args ==
  [a : 1..MaxRoot, b : 1..MaxRoot, j : 0..XSteps, deg : 0..MaxDeg]

ArgLow(c) == QInt(c.a * c.a)

ArgHigh(c) == QInt(c.b * c.b)

ArgMid(c) == QDiv(QAdd(ArgLow(c), ArgHigh(c)), QInt(2))

ArgX(c) == QMul(Q(c.j, XSteps), QAdd(ArgLow(c), ArgHigh(c)))

ArgUnit(c) == Q(c.j, XSteps)

ArgM(c) == QPow(Q(c.b - c.a, c.b + c.a), 2)

ArgStep(c) == QPow(Q(2, c.b + c.a), 2)

\* np.linspace(0, 1, n, endpoint=False), as all_R of cell 30, with n = deg + 1
ArgRates(c) == [k \in 1..(c.deg + 1) |-> Q(k - 1, c.deg + 1)]

InitFn ==
  /\ InitRun
  /\ ext = {}
  /\ \E c \in Args, e \in Envs :
       /\ c.a < c.b
       /\ fn = [pos |-> 1, arg |-> c, env1 |-> PlotEnv(c.deg), env2 |-> e]
  /\ out = [n \in {Helpers7[k] : k \in 1..Len(Helpers7)} |-> << >>]

CallPolyGd ==
  /\ fn.pos = 1
  /\ LET c == fn.arg
     IN  out' = [out EXCEPT ![Helpers7[1]] =
                   <<poly_gd(fn.env1, ArgUnit(c), c.deg),
                     poly_gd(fn.env2, ArgUnit(c), c.deg)>>]
  /\ fn' = [fn EXCEPT !.pos = 2]
  /\ UNCHANGED run_vars

CallPolyPolyak ==
  /\ fn.pos = 2
  /\ LET c == fn.arg
     IN  out' = [out EXCEPT ![Helpers7[2]] =
                   <<poly_polyak(fn.env1, ArgX(c), ArgLow(c), ArgHigh(c), c.deg),
                     poly_polyak(fn.env2, ArgX(c), ArgLow(c), ArgHigh(c), c.deg)>>]
  /\ fn' = [fn EXCEPT !.pos = 3]
  /\ UNCHANGED run_vars

\* R = 0: L1 = mu2 = (mu1 + L2) / 2
CallPolyCyclical ==
  /\ fn.pos = 3
  /\ LET c == fn.arg
     IN  out' = [out EXCEPT ![Helpers7[3]] =
                   <<poly_cyclical(fn.env1, ArgX(c), ArgLow(c), ArgMid(c), ArgMid(c), ArgHigh(c), c.deg),
                     poly_cyclical(fn.env2, ArgX(c), ArgLow(c), ArgMid(c), ArgMid(c), ArgHigh(c), c.deg)>>]
  /\ fn' = [fn EXCEPT !.pos = 4]
  /\ UNCHANGED run_vars

CallSigma ==
  /\ fn.pos = 4
  /\ LET c == fn.arg
     IN  out' = [out EXCEPT ![Helpers7[4]] =
                   <<sigma(fn.env1, ArgX(c), ArgM(c), ArgStep(c)),
                     sigma(fn.env2, ArgX(c), ArgM(c), ArgStep(c))>>]
  /\ fn' = [fn EXCEPT !.pos = 5]
  /\ UNCHANGED run_vars

CallZeta ==
  /\ fn.pos = 5
  /\ LET c  == fn.arg
         h1 == QMul(ArgStep(c), Q(1, 2))
     IN  out' = [out EXCEPT ![Helpers7[5]] =
                   <<zeta(fn.env1, ArgX(c), ArgM(c), ArgStep(c), h1),
                     zeta(fn.env2, ArgX(c), ArgM(c), ArgStep(c), h1)>>]
  /\ fn' = [fn EXCEPT !.pos = 6]
  /\ UNCHANGED run_vars

CallSigmaR ==
  /\ fn.pos = 6
  /\ LET c == fn.arg
     IN  out' = [out EXCEPT ![Helpers7[6]] =
                   <<sigma_r(fn.env1, ArgUnit(c), ArgM(c), ArgUnit(c)),
                     sigma_r(fn.env2, ArgUnit(c), ArgM(c), ArgUnit(c))>>]
  /\ fn' = [fn EXCEPT !.pos = 7]
  /\ UNCHANGED run_vars

CallCyclicalRate ==
  /\ fn.pos = 7
  /\ LET c     == fn.arg
         kappa == QDiv(ArgLow(c), ArgHigh(c))
         R     == ArgRates(c)
     IN  out' = [out EXCEPT ![Helpers7[7]] =
                   <<cyclical_rate(fn.env1, kappa, R),
                     cyclical_rate(fn.env2, kappa, R)>>]
  /\ fn' = [fn EXCEPT !.pos = 8]
  /\ UNCHANGED run_vars

NextFn ==
  \/ CallPolyGd
  \/ CallPolyPolyak
  \/ CallPolyCyclical
  \/ CallSigma
  \/ CallZeta
  \/ CallSigmaR
  \/ CallCyclicalRate

SpecFn == InitFn /\ [][NextFn]_vars

(* ------------------------------------------------------------------ *)
(* Properties                                                          *)
(* ------------------------------------------------------------------ *)
Called(n) == out[n] # << >>

\* the frames written by the loop of cell c, in order
FramesOf(c) == SelectSeq(frames, LAMBDA f : f.cell = c)

DigitVal(c) == CHOOSE k \in 0..9 : DigitChar[k + 1] = c

(* C1, as stated: with the global t equal to the degree d, for every x, *)
(* every bounds mu1 < L2 and every degree d, poly_cyclical(x, mu1, L1,  *)
(* mu2, L2, d) with L1 = mu2 = (mu1 + L2)/2 returns the value of        *)
(* poly_polyak(x, mu1, L2, d).                                          *)
C1_EveryDegree ==
  (Called("poly_polyak") /\ Called("poly_cyclical"))
    => out["poly_cyclical"][1] = out["poly_polyak"][1]

(* C1, amended: the two values agree for every even degree d.           *)
C1_EvenDegree ==
  (Called("poly_polyak") /\ Called("poly_cyclical") /\ fn.arg.deg % 2 = 0)
    => out["poly_cyclical"][1] = out["poly_polyak"][1]

\* an even degree >= 2 at an eigenvalue above the midpoint, where the Polyak
\* link is negative, and a value that is not 0
C1_Witness ==
  /\ Called("poly_polyak")
  /\ Called("poly_cyclical")
  /\ fn.arg.deg % 2 = 0
  /\ fn.arg.deg >= 2
  /\ 2 * fn.arg.j > XSteps
  /\ out["poly_cyclical"][1] = out["poly_polyak"][1]
  /\ out["poly_polyak"][1][1] # 0

(* C2: every helper is a pure function of its parameters: two calls     *)
(* with the same arguments return the same result whatever the globals  *)
(* t, mu and L are at each call.                                        *)
C2_Pure ==
  \A k \in 1..Len(Helpers7) :
    Called(Helpers7[k]) => out[Helpers7[k]][1] = out[Helpers7[k]][2]

(* C3: every global a section reads was assigned by a cell of the same  *)
(* section.                                                             *)
C3_SelfContained ==
  \A r \in reads : SectionOf(r.from) = SectionOf(r.cell)

\* R = (mu2 - L1) / (L2 - mu1), the relative gap cell 20 prints
RelativeGap(mu1, L1, mu2, L2) == FDiv(mu2 - L1, L2 - mu1)

\* the constants of the heavy-ball cell and of the two sweeps are current
GapFromSweep == prov["L1"].cell \in {5, 15, 23} /\ prov["R"].cell = prov["L1"].cell

GapFromSpectrum == prov["L1"].cell = 19

GapOrdered(R) == g["L1"] <= g["mu2"] /\ 0 <= R /\ R <= One

\* the extreme eigenvalues differ and the second largest eigenvalue is at most
\* their midpoint
BelowMidpoint(e) == e[1] < e[Len(e)] /\ 2 * e[Len(e) - 1] <= e[1] + e[Len(e)]

UnderscoreName(name, k) ==
  /\ Len(name) = 5
  /\ name[2] = "_"
  /\ IsDigit(name[3]) /\ IsDigit(name[4])
  /\ 10 * DigitVal(name[3]) + DigitVal(name[4]) = k
  /\ name[5] = ".png"

\* name is <prefix> NN ".png" with NN the two digits of k
PlainName(name, k) ==
  /\ Len(name) = 4
  /\ name[1] = "CyclicalResidualPolynomial"
  /\ IsDigit(name[2]) /\ IsDigit(name[3])
  /\ 10 * DigitVal(name[2]) + DigitVal(name[3]) = k
  /\ name[4] = ".png"

(* C5, as stated: every numbered frame is named <prefix>_NN.png, NN the *)
(* frame index.                                                         *)
C5_AllUnderscore ==
  \A i \in DOMAIN frames : UnderscoreName(frames[i].name, frames[i].k)

(* C5, amended: every numbered frame of a section other than the        *)
(* residual polynomial is named <prefix>_NN.png, NN the frame index     *)
(* from 0; the frames of the residual polynomial are named              *)
(* CyclicalResidualPolynomialNN.png, without underscore, NN = t // 2,   *)
(* from 1.                                                              *)
C5_FrameNames ==
  \A i \in DOMAIN frames :
    IF frames[i].cell = 9
    THEN PlainName(frames[i].name, frames[i].k + 1)
    ELSE UnderscoreName(frames[i].name, frames[i].k)

C5_Witness ==
  /\ \E i \in DOMAIN frames : frames[i].cell = 9 /\ frames[i].k = 8
  /\ \E i \in DOMAIN frames : frames[i].cell = 27 /\ frames[i].k = 79
  /\ \E i \in DOMAIN frames : frames[i].cell = 30 /\ frames[i].k = 5

\* the cells that hold an assembler command line
AsmCells == {7, 10, 14, 16, 24, 28, 31}

\* cell c, one of AsmCells, has run: it ran its command or displayed an error
CellRan(c) ==
  \/ \E i \in DOMAIN shell : shell[i].cell = c
  \/ \E i \in DOMAIN visible : visible[i].cell = c

(* C6: for each animation the assembler is invoked on the frame         *)
(* sequence its section wrote: once the assembler cell has run, the     *)
(* assembler has been invoked by it, with the name of the               *)
(* lowest-indexed frame the preceding loop wrote as first-frame         *)
(* argument.                                                            *)
C6_FirstFrame ==
  \A c \in AsmCells :
    CellRan(c) =>
      \E i \in DOMAIN asm :
        LET fs == FramesOf(c - 1)
        IN  /\ asm[i].cell = c
            /\ fs # << >>
            /\ \A j \in DOMAIN fs : fs[1].k <= fs[j].k
            /\ asm[i].first = fs[1].name

(* C7, as stated: within one execution of a cell no scalar constant is  *)
(* assigned more than once, and no cell reads a value of one that a     *)
(* different cell's loop left behind.                                   *)
C7_SingleWriter ==
  /\ \A n \in Scalars : prov[n].cnt <= 1
  /\ \A r \in reads :
       (r.name \in Scalars /\ r.from # r.cell) => ~r.loop

(* C7, amended: within one execution of a cell the code outside loop    *)
(* bodies assigns a scalar constant at most once, except m, which the   *)
(* heavy-ball cell assigns twice; loop bodies reassign their names; the *)
(* only value left behind by a different cell's loop that a cell reads  *)
(* is L, read by the cyclical link-function cell.                       *)
C7_Writers ==
  /\ \A n \in Scalars :
       prov[n].top <= (IF n = "m" /\ prov[n].cell = 5 THEN 2 ELSE 1)
  /\ \A r \in reads :
       (r.name \in Scalars /\ r.from # r.cell /\ r.loop)
         => (r.name = "L" /\ r.cell = 15 /\ r.from = 13)

C7_Witness ==
  /\ pc = "done"
  /\ [name |-> "L", cell |-> 15, from |-> 13, loop |-> TRUE] \in reads
  /\ [name |-> "rho", cell |-> 27, from |-> 23, loop |-> FALSE] \in reads

\* the plotting loop of cell 6 has finished
PlotDone == pc \notin {"c2", "c3", "c5", "c5_polyak", "c5_cyc_init", "c5_cyc", "c6"}

(* C8: the plotting loop of the heavy-ball animation writes exactly     *)
(* max_iter frames, one for each i in 0..max_iter-1, under pairwise     *)
(* distinct names.                                                      *)
C8_OneFramePerIteration ==
  LET fs == FramesOf(6)
  IN  /\ Len(fs) <= max_iter
      /\ \A j \in DOMAIN fs : fs[j].k = j - 1
      /\ \A j, k \in DOMAIN fs : j # k => fs[j].name # fs[k].name
      /\ \A j \in DOMAIN fs : fs[j].name \in files
      /\ PlotDone => Len(fs) = max_iter

C8_Witness ==
  /\ PlotDone
  /\ Len(FramesOf(6)) = max_iter
  /\ Cardinality({frames[j].name : j \in DOMAIN frames}) = max_iter

\* the iterations of one of the two loops of cell 5, in order
StepsOf(l) == SelectSeq(steps, LAMBDA e : e.loop = l)

\* m, L1 and mu2 are those of the cyclical loop
CycCurrent == prov["L1"].cell = 5 /\ prov["m"].cell = 5

(* C9: in the cyclical loop every iteration i >= 1 uses the step size   *)
(* (1+m)/mu2 when i is odd and (1+m)/L1 when i is even, so consecutive  *)
(* iterations i, i+1 (i >= 1) use different step sizes when L1 # mu2;   *)
(* the momentum coefficient is m in all of them; exactly one branch     *)
(* runs in every iteration.                                             *)
C9_Alternates ==
  CycCurrent =>
    LET cs == StepsOf("cyclical")
    IN  /\ \A j \in DOMAIN cs :
             /\ cs[j].i = j - 1
             /\ cs[j].branch # "none"
             /\ (cs[j].i >= 1 /\ cs[j].i % 2 = 1)
                  => cs[j].step = FDiv(One + g["m"], g["mu2"])
             /\ (cs[j].i >= 1 /\ cs[j].i % 2 = 0)
                  => cs[j].step = FDiv(One + g["m"], g["L1"])
             /\ cs[j].i >= 1 => cs[j].momentum = g["m"]
        /\ \A j \in DOMAIN cs :
             (j + 1 \in DOMAIN cs /\ cs[j].i >= 1 /\ g["L1"] # g["mu2"])
               => cs[j].step # cs[j + 1].step

C9_Witness ==
  /\ pc = "c6"
  /\ CycCurrent
  /\ Len(StepsOf("cyclical")) = max_iter
  /\ g["L1"] # g["mu2"]
  /\ StepsOf("cyclical")[2].step # StepsOf("cyclical")[3].step

\* L, mu are those of cell 5
PolyakCurrent == prov["L"].cell = 5 /\ prov["mu"].cell = 5

\* x - h * (H @ x) + m * (x - x_old)
HeavyBall(h, m, x, x_old) ==
  VAdd(VSub(x, VScale(h, MatVec(H, x))), VScale(m, VSub(x, x_old)))

\* all_iterates_momentum[j] (from 0) followed from the two iterates before it
\* with step size h and momentum m; x_init stands before the first
PolyakUpdate(j, h, m) ==
  mom[j + 1] = HeavyBall(h, m, mom[j], IF j = 1 THEN mom[j] ELSE mom[j - 1])

(* C10, as stated: every one of the max_iter iterations of the Polyak   *)
(* loop applies x - h*H*x + m*(x - x_old) with the same h and m.        *)
C10_EveryIteration ==
  (PolyakCurrent /\ prov["H"].cell = 5) =>
    LET ps == StepsOf("polyak")
    IN  \A j \in DOMAIN ps :
          /\ ps[j].step = PolyakH(g["L"], g["mu"])
          /\ j < Len(ps) => PolyakUpdate(j, PolyakH(g["L"], g["mu"]),
                                         PolyakM(g["L"], g["mu"]))

(* C10, amended: every iteration i >= 1 applies that update with the    *)
(* same h and m; iteration 0 is a gradient step x - (2/(L+mu))*H*x; the *)
(* loop never changes h or m.                                           *)
C10_FromIterationOne ==
  (PolyakCurrent /\ prov["H"].cell = 5) =>
    LET ps == StepsOf("polyak")
        h  == PolyakH(g["L"], g["mu"])
        m  == PolyakM(g["L"], g["mu"])
    IN  /\ \A j \in DOMAIN ps :
             /\ ps[j].i = j - 1
             /\ ps[j].i >= 1 => (ps[j].step = h /\ ps[j].momentum = m)
             /\ (ps[j].i >= 1 /\ j < Len(ps)) => PolyakUpdate(j, h, m)
             /\ ps[j].i = 0 => (/\ ps[j].step = FDiv(Two, g["L"] + g["mu"])
                                /\ ps[j].momentum = 0
                                /\ j < Len(ps) => PolyakUpdate(j, ps[j].step, 0))
        /\ pc = "c5_polyak" => (g["h"] = h /\ g["m"] = m)
        /\ pc \notin {"c5", "c5_polyak"} => Len(ps) = max_iter

C10_Witness ==
  /\ pc = "c5_cyc_init"
  /\ Len(StepsOf("polyak")) = max_iter
  /\ StepsOf("polyak")[1].step # StepsOf("polyak")[2].step
  /\ StepsOf("polyak")[2].momentum > 0
  /\ mom[3] # mom[2]

\* the grids drawn by the loop of cell c, in order
ShownBy(c) == SelectSeq(shown, LAMBDA e : e.cell = c)

\* the grid point p is marked robust in the grid r
MarkedRobust(r, p) == r[p] # NaN

\* the increasing half of the sweep of R: its first 30 values
IncreasingHalf == SweepCount(30) \div 2

(* C11: in the robust-region sweep, for any two values R <= R' of the   *)
(* increasing half of the sweep, every grid point (m, r) marked robust  *)
(* (smax <= 1, rate = sqrt(m)) for R is also marked robust for R'.      *)
(* Stated at every iteration j of the increasing half, for R' its value *)
(* of R and R every earlier one.                                        *)
C11_RegionGrows ==
  LET rs == ShownBy(23)
      j  == Len(rs)
  IN  (1 <= j /\ j <= IncreasingHalf) =>
        \A i \in 1..j :
          /\ rs[i].R <= rs[j].R
          /\ \A p \in MeshPoints :
               MarkedRobust(rs[i].rate, p) => MarkedRobust(rs[j].rate, p)
          /\ \A p \in MeshPoints :
               MarkedRobust(rs[j].rate, p) =>
                 rs[j].rate[p] = FSqrt(Fx(MGrid - p[1], MGrid))

\* the region has grown: a point is marked at the end of the increasing half
\* that was not marked at its start, and a point is marked at both
C11_Witness ==
  LET rs == ShownBy(23)
  IN  /\ Len(rs) >= IncreasingHalf
      /\ \E p \in MeshPoints :
           ~MarkedRobust(rs[1].rate, p) /\ MarkedRobust(rs[IncreasingHalf].rate, p)
      /\ \E p \in MeshPoints :
           MarkedRobust(rs[2].rate, p) /\ MarkedRobust(rs[IncreasingHalf].rate, p)
      /\ \E p \in MeshPoints : ~MarkedRobust(rs[IncreasingHalf - 1].rate, p)

(* C12: a failure of an external step (font download, package           *)
(* installation, the assembler missing or failing) surfaces to the      *)
(* person running the notebook as an uncaught exception or as visible   *)
(* shell error output: no cell suppresses the output of its shell       *)
(* commands, and the cell of every failed command displayed an error.   *)
C12_FailuresSurface ==
  \A i \in DOMAIN shell :
    /\ ~shell[i].captured
    /\ shell[i].failed => \E j \in DOMAIN visible : visible[j].cell = shell[i].cell

(* C13: during a top-to-bottom run every helper-function name keeps a   *)
(* single definition: once sigma is defined it takes the three          *)
(* parameters (x, m, h) at every later point of the run, so a call      *)
(* sigma(x, m, h) is valid after any prefix of the cells.               *)
SigmaParams == 3

C13_SigmaKeepsDefinition ==
  helpers["sigma"] # 0 => helpers["sigma"] = SigmaParams

(* C14: at R = 0 the three rates of cyclical_rate coincide for every    *)
(* kappa in (0, 1): r_cyclical = r_polyak = r_approx at the entry where  *)
(* R = 0, and r_polyak, r_cyclical and r_approx are all returned as      *)
(* arrays of the length of R, although rho is computed from the scalar   *)
(* kappa.                                                                *)
RatesOf(k) == out["cyclical_rate"][k]

CoincideAtZero(r, R) ==
  \A k \in DOMAIN R :
    R[k] = QInt(0) =>
      /\ ~QIsNaN(r.r_polyak[1])
      /\ r.r_cyclical[k] = r.r_polyak[IF r.scalar THEN 1 ELSE k]
      /\ r.r_approx[k] = r.r_polyak[IF r.scalar THEN 1 ELSE k]

ArraysOfLength(r, n) ==
  /\ ~r.scalar
  /\ Len(r.r_polyak) = n
  /\ Len(r.r_cyclical) = n
  /\ Len(r.r_approx) = n

AtIterationStart(loop_pc, all_iterates, stored) ==
  pc = loop_pc =>
    /\ iter = 0 => xt = x_init /\ xt_old = x_init
    /\ iter > 0 => xt_old = all_iterates[iter]
    /\ stored[iter + 1] = xt
    /\ \A k \in 1..iter : stored[k] = all_iterates[k]

BothLoopsDone == pc \notin {"c2", "c3", "c5", "c5_polyak", "c5_cyc_init", "c5_cyc"}

SharedStart ==
  /\ (pc = "c5_cyc" /\ iter >= 1) \/ BothLoopsDone =>
        cyc[1] = x_init /\ mom[1] = x_init
  /\ (pc = "c5_cyc" /\ iter >= 2) \/ BothLoopsDone => cyc[2] = mom[2]

C15_IterateArrays ==
  /\ [][/\ AtIterationStart("c5_polyak", mom, mom')
        /\ AtIterationStart("c5_cyc", cyc, cyc')]_vars
  /\ []SharedStart

\* the cyclical loop is at the start of iteration 3: iterates 0 and 1 are
\* shared with Polyak's, iterate 2 is not, and xt_old is iterate 2
C15_Witness ==
  /\ pc = "c5_cyc"
  /\ iter = 3
  /\ cyc[1] = x_init
  /\ cyc[2] = mom[2]
  /\ cyc[2] # x_init
  /\ cyc[3] # mom[3]
  /\ xt_old = cyc[3]
  /\ xt # xt_old

(* C16: in the landscape loop, after the rows of the grid are processed *)
(* every grid point with sigma_star <= 1 holds sqrt(optimal_m), every    *)
(* point with 1 < sigma_star <= (1 + optimal_m^2) / (2 optimal_m) holds  *)
(* sqrt(optimal_m (sigma_star + sqrt(sigma_star^2 - 1))), and every      *)
(* other point holds NaN.                                                *)
LandscapeDone == (pc = "c27_loop" /\ iter >= 1) \/ pc = "c28"

RobustPoint(s) == FLe(s, One)

ConvergentPoint(s, m) == ~RobustPoint(s) /\ FLe(s, ConvergentBound(m))

RateClasses(p) ==
  LET s == sigma_star[p[1]][p[2]]
      m == g["optimal_m"]
      r == rate[p[1]][p[2]]
  IN  /\ RobustPoint(s) => r = FSqrt(m)
      /\ ConvergentPoint(s, m) => r = ConvergentRate(m, s)
      /\ ~RobustPoint(s) /\ ~ConvergentPoint(s, m) => r = NaN

C16_SomeRobust ==
  LandscapeDone /\ \E p \in LandPoints : RobustPoint(sigma_star[p[1]][p[2]])

ShowsFirst(f, n) ==
  /\ f.momentum = SubSeq(mom, 1, n)
  /\ f.cyclical = SubSeq(cyc, 1, n)

\* iterate j (counted from 0) of both methods is drawn in some frame
DrawnSomewhere(j) ==
  \E k \in DOMAIN drawn :
    /\ Len(drawn[k].momentum) > j /\ drawn[k].momentum[j + 1] = mom[j + 1]
    /\ Len(drawn[k].cyclical) > j /\ drawn[k].cyclical[j + 1] = cyc[j + 1]

\* as stated: frame i shows the iterates 0 .. i
C17_ThroughIterate ==
  /\ \A k \in DOMAIN drawn : ShowsFirst(drawn[k], drawn[k].i + 1)
  /\ PlotDone => \A j \in 0..(max_iter - 1) : DrawnSomewhere(j)

\* frame i shows the iterates 0 .. i - 1
C17_BeforeIterate ==
  /\ \A k \in DOMAIN drawn : ShowsFirst(drawn[k], drawn[k].i)
  /\ PlotDone =>
       /\ \A j \in 0..(max_iter - 2) : DrawnSomewhere(j)
       /\ ~DrawnSomewhere(max_iter - 1)

\* all frames are written: the first shows no iterate, the last shows
\* max_iter - 1 iterates of two trajectories that differ
C17_Witness ==
  /\ PlotDone
  /\ Len(drawn) = max_iter
  /\ drawn[1].i = 0
  /\ drawn[1].momentum = << >>
  /\ drawn[max_iter].i = max_iter - 1
  /\ Len(drawn[max_iter].momentum) = max_iter - 1
  /\ Len(drawn[max_iter].cyclical) = max_iter - 1
  /\ drawn[max_iter].momentum # drawn[max_iter].cyclical

====
